---------------------------- MODULE Spec2Model ----------------------------
(***************************************************************************)
(* Model of the ElectricHouseSpider crawl (src/scrapers/electrichouse.py): *)
(* one category-tree request, a recursive walk of the tree that issues a   *)
(* page-1 product request per leaf category, and a self-driven pagination  *)
(* per category.  Requests are downloaded concurrently by the framework    *)
(* and each response is handed to its callback in arrival order.           *)
(***************************************************************************)
EXTENDS Integers, Sequences, FiniteSets, TLC

(***************************************************************************)
(* Bounds of the model.                                                    *)
(***************************************************************************)
\* largest total_pages the server reports
MaxPages == 2
\* most items on one page of a crawl
MaxItems == 2
\* most category nodes in a tree answered during a crawl
MaxCrawlNodes == 2
\* most category nodes in a tree handed to parse_categories alone
MaxNodes == 3
\* largest total_pages the server reports for the long category
MaxTotalPages == 3

(***************************************************************************)
(* JSON values as json.loads returns them: every value carries its type    *)
(* tag; a key missing from an object is a key outside DOMAIN o.            *)
(***************************************************************************)
Null == [t |-> "null"]
Str(s) == [t |-> "str", s |-> s]
Num(n) == [t |-> "num", n |-> n]
List(l) == [t |-> "list", l |-> l]
Obj(f) == [t |-> "obj", o |-> f]
EmptyObj == Obj(<<>>)
EmptyList == List(<<>>)

IsDict(v) == v.t = "obj"

\* dict.get(k, dflt): the default is used for a missing key only, a key
\* present with null gives null
PyGet(d, k, dflt) == IF k \in DOMAIN d.o THEN d.o[k] ELSE dflt

\* Python truthiness of a value
Truthy(v) ==
  CASE v.t = "null" -> FALSE
    [] v.t = "str" -> v.s # ""
    [] v.t = "num" -> v.n # 0
    [] v.t = "list" -> v.l # <<>>
    [] v.t = "obj" -> DOMAIN v.o # {}

\* result of a call: a value, or an exception that leaves the callee
Return(v) == [raised |-> FALSE, exc |-> "", value |-> v]
Raise(e) == [raised |-> TRUE, exc |-> e, value |-> Null]

(***************************************************************************)
(* Response bodies: bytes that json.loads either decodes to a value or     *)
(* rejects with JSONDecodeError.                                           *)
(***************************************************************************)
Undecodable == [decodes |-> FALSE, json |-> Null]
Body(v) == [decodes |-> TRUE, json |-> v]
NoBody == Undecodable

json_loads(body) ==
  IF body.decodes THEN Return(body.json) ELSE Raise("JSONDecodeError")

(***************************************************************************)
(* process_product_item: the flat record of one raw product node.  Every   *)
(* chained .get is a method call on the value the previous .get returned,  *)
(* so it raises AttributeError when that value is not a dict.              *)
(***************************************************************************)
SourceSite == Str("electric-house")

process_product_item(item) ==
  LET pr == PyGet(item, "price_range", EmptyObj)
      price_info == PyGet(pr, "maximum_price", EmptyObj)
      fp == PyGet(price_info, "final_price", EmptyObj)
      rp == PyGet(price_info, "regular_price", EmptyObj)
      discount == PyGet(price_info, "discount", EmptyObj)
      img == PyGet(item, "small_image", EmptyObj)
      desc == PyGet(item, "description", EmptyObj)
  IN IF \/ ~IsDict(item) \/ ~IsDict(pr) \/ ~IsDict(price_info)
        \/ ~IsDict(fp) \/ ~IsDict(rp) \/ ~IsDict(discount)
        \/ ~IsDict(img) \/ ~IsDict(desc)
     THEN Raise("AttributeError")
     ELSE Return([id |-> PyGet(item, "id", Null),
                  uid |-> PyGet(item, "uid", Null),
                  sku |-> PyGet(item, "sku", Null),
                  name |-> PyGet(item, "name", Null),
                  url_key |-> PyGet(item, "url_key", Null),
                  stock_status |-> PyGet(item, "stock_status", Null),
                  final_price |-> PyGet(fp, "value", Null),
                  regular_price |-> PyGet(rp, "value", Null),
                  currency |-> PyGet(fp, "currency", Null),
                  discount_amount |-> PyGet(discount, "amount_off", Null),
                  discount_percent |-> PyGet(discount, "percent_off", Null),
                  image_url |-> PyGet(img, "url", Null),
                  description |-> PyGet(desc, "html", Null),
                  source_site |-> SourceSite])


(***************************************************************************)
(* parse_products, as a function of the response body and the page number  *)
(* the request was issued with: the records yielded (in order), whether a  *)
(* request for the next page is yielded, what is logged as an error, and   *)
(* whether an exception other than JSONDecodeError leaves the callback.    *)
(***************************************************************************)
\* "errors" in data
HasErrors_never(data) == FALSE
HasErrors(data) ==
  CASE data.t = "obj" -> "errors" \in DOMAIN data.o
    [] data.t = "list" -> \E i \in DOMAIN data.l : data.l[i] = Str("errors")
    [] OTHER -> FALSE

\* page < total_pages
HasNextPage_skip(page, total_pages) == page + 1 < total_pages
HasNextPage_first(page, total_pages) == 1 < total_pages
HasNextPage(page, total_pages) == page < total_pages

\* next_page = page + 1
next_page_same(page) == page
next_page(page) == page + 1

\* for item in items: yield self.process_product_item(item)
\* the records yielded before the first item whose normalisation raises
RECURSIVE YieldItems(_)
YieldItems(items) ==
  IF items = <<>> THEN [out |-> <<>>, raised |-> FALSE]
  ELSE LET first == process_product_item(Head(items))
       IN IF first.raised THEN [out |-> <<>>, raised |-> TRUE]
          ELSE LET rest == YieldItems(Tail(items))
               IN [out |-> <<first.value>> \o rest.out, raised |-> rest.raised]

\* a callback that yields in reverse
Outcome_reversed(items, next, log, raised) ==
  [items |-> [k \in DOMAIN items |-> items[Len(items) + 1 - k]],
   next |-> next, log |-> log, raised |-> raised]
Outcome(items, next, log, raised) ==
  [items |-> items, next |-> next, log |-> log, raised |-> raised]

parse_products_run(body, page) ==
  LET d == json_loads(body) IN
  IF d.raised THEN Outcome(<<>>, FALSE, <<"decode_failed">>, FALSE)
  ELSE LET data == d.value IN
  IF data.t \notin {"obj", "list", "str"} THEN Outcome(<<>>, FALSE, <<>>, TRUE)
  ELSE IF HasErrors(data) THEN Outcome(<<>>, FALSE, <<"graphql_errors">>, FALSE)
  ELSE IF ~IsDict(data) THEN Outcome(<<>>, FALSE, <<>>, TRUE)
  ELSE LET dd == PyGet(data, "data", EmptyObj) IN
  IF ~IsDict(dd) THEN Outcome(<<>>, FALSE, <<>>, TRUE)
  ELSE LET products_data == PyGet(dd, "products", EmptyObj) IN
  IF ~IsDict(products_data) THEN Outcome(<<>>, FALSE, <<>>, TRUE)
  ELSE LET items == PyGet(products_data, "items", EmptyList)
           page_info == PyGet(products_data, "page_info", EmptyObj)
       IN
  IF ~IsDict(page_info) \/ items.t # "list" THEN Outcome(<<>>, FALSE, <<>>, TRUE)
  ELSE LET total_pages == PyGet(page_info, "total_pages", Num(1))
           yielded == YieldItems(items.l)
       IN
  IF yielded.raised \/ total_pages.t # "num"
  THEN Outcome(yielded.out, FALSE, <<>>, TRUE)
  ELSE Outcome(yielded.out, HasNextPage(page, total_pages.n), <<>>, FALSE)

(***************************************************************************)
(* parse_categories, as a function of the response body: the uids of the   *)
(* page-1 product requests it yields, in order.                            *)
(***************************************************************************)
\* cat.get("children") and len(cat["children"]) > 0
HasChildren_never(cat) == FALSE
HasChildren(cat) ==
  LET children == PyGet(cat, "children", Null)
  IN Truthy(children) /\ children.t = "list" /\ Len(children.l) > 0

\* if uid: (a missing, null or empty uid is skipped)
HasUid_always(cat) == TRUE
HasUid(cat) == Truthy(PyGet(cat, "uid", Null))

RECURSIVE traverse_categories(_)
traverse_categories(cats) ==
  IF cats = <<>> THEN [out |-> <<>>, raised |-> FALSE]
  ELSE LET cat == Head(cats) IN
    IF ~IsDict(cat) THEN [out |-> <<>>, raised |-> TRUE]
    ELSE LET here ==
               IF HasChildren(cat)
               THEN traverse_categories(PyGet(cat, "children", Null).l)
               ELSE IF Truthy(PyGet(cat, "children", Null))
               THEN [out |-> <<>>, raised |-> TRUE]
               ELSE [out |-> IF HasUid(cat) THEN <<PyGet(cat, "uid", Null)>> ELSE <<>>,
                     raised |-> FALSE]
         IN IF here.raised THEN here
            ELSE LET rest == traverse_categories(Tail(cats))
                 IN [out |-> here.out \o rest.out, raised |-> rest.raised]

parse_categories_run(body) ==
  LET d == json_loads(body) IN
  IF d.raised THEN Outcome(<<>>, FALSE, <<"decode_failed">>, FALSE)
  ELSE LET data == d.value IN
  IF ~IsDict(data) THEN Outcome(<<>>, FALSE, <<>>, TRUE)
  ELSE LET dd == PyGet(data, "data", EmptyObj) IN
  IF ~IsDict(dd) THEN Outcome(<<>>, FALSE, <<>>, TRUE)
  ELSE LET categories == PyGet(dd, "categoryList", EmptyList) IN
  IF categories.t # "list" THEN Outcome(<<>>, FALSE, <<>>, TRUE)
  ELSE LET walked == traverse_categories(categories.l)
       IN Outcome(walked.out, FALSE, <<>>, walked.raised)

(***************************************************************************)
(* What the server can answer.                                             *)
(***************************************************************************)
\* a key that the object does not have
Absent == [t |-> "absent"]
Field(k, v) == IF v.t = "absent" THEN <<>> ELSE k :> v

SeqsUpTo(S, n) == UNION {[1..k -> S] : k \in 0..n}

RECURSIVE SortedSeq(_)
SortedSeq(S) ==
  IF S = {} THEN <<>>
  ELSE LET m == CHOOSE x \in S : \A y \in S : x <= y
       IN <<m>> \o SortedSeq(S \ {m})

\* category node i of a forest given by parent links (0: a root), with the
\* uid form of each node and the form of a childless node's children field
RECURSIVE CategoryNode(_, _, _, _)
CategoryNode(i, parent, uidOf, leafForm) ==
  LET kids == SortedSeq({j \in DOMAIN parent : parent[j] = i})
      children == IF kids = <<>> THEN leafForm
                  ELSE List([k \in DOMAIN kids |->
                               CategoryNode(kids[k], parent, uidOf, leafForm)])
  IN Obj(Field("uid", uidOf[i]) @@ Field("children", children))

Forest(parent, uidOf, leafForm) ==
  LET roots == SortedSeq({j \in DOMAIN parent : parent[j] = 0})
  IN [k \in DOMAIN roots |-> CategoryNode(roots[k], parent, uidOf, leafForm)]

ParentLinks(n) == {p \in [1..n -> 0..n] : \A i \in 1..n : p[i] < i}

TreeBody(cats) == Body(Obj([data |-> Obj([categoryList |-> List(cats)])]))

\* raw product nodes of a crawl: one that normalises, and one whose
\* price_range is null
GoodNode ==
  Obj([id |-> Num(1), uid |-> Str("MQ=="), sku |-> Str("sku-1"),
       name |-> Str("Kettle"), url_key |-> Str("kettle"),
       stock_status |-> Str("IN_STOCK"),
       price_range |-> Obj([maximum_price |->
          Obj([final_price |-> Obj([value |-> Num(100), currency |-> Str("SAR")]),
               regular_price |-> Obj([value |-> Num(150), currency |-> Str("SAR")]),
               discount |-> Obj([amount_off |-> Num(50), percent_off |-> Num(33)])])]),
       small_image |-> Obj([url |-> Str("http://img/1")]),
       description |-> Obj([html |-> Str("<p>1</p>")])])
NullPriceNode ==
  Obj([id |-> Num(2), uid |-> Str("Mg=="), sku |-> Str("sku-2"),
       name |-> Str("Lamp"), price_range |-> Null])
CrawlNodes == {GoodNode, NullPriceNode}

ProductsBody(items, total_pages) ==
  Body(Obj([data |-> Obj([products |->
     Obj(("items" :> List(items)) @@
         (IF total_pages.t = "absent" THEN <<>>
          ELSE "page_info" :> Obj([total_pages |-> total_pages])))])]))

\* a GraphQL error answer, without data and with partial data
ErrorsBody ==
  Body(Obj([errors |-> List(<<Str("Internal server error")>>), data |-> Null]))
PartialErrorsBody ==
  Body(Obj([errors |-> List(<<Str("Internal server error")>>),
            data |-> Obj([products |->
               Obj([items |-> List(<<GoodNode>>),
                    page_info |-> Obj([total_pages |-> Num(MaxPages)])])])]))
NullDataBody == Body(Obj([data |-> Null]))

ProductBodies ==
  {Undecodable, ErrorsBody, PartialErrorsBody, NullDataBody} \cup
  {ProductsBody(items, tp) : items \in SeqsUpTo(CrawlNodes, MaxItems),
                             tp \in {Absent} \cup {Num(n) : n \in 1..MaxPages}}

\* the pages of the long category: page_info holds a current_page and a
\* total_pages, each a number up to MaxTotalPages or missing, or is missing
LongCategory == Str("long")
PagedBody(items, current_page, total_pages) ==
  Body(Obj([data |-> Obj([products |->
     Obj([items |-> List(items),
          page_info |-> Obj(Field("current_page", current_page)
                            @@ Field("total_pages", total_pages))])])]))
PageCounts == {Absent} \cup {Num(n) : n \in 1..MaxTotalPages}
PagedBodies ==
  {PagedBody(items, cp, tp) : items \in {<<>>, <<GoodNode>>, <<NullPriceNode>>},
                              cp \in PageCounts, tp \in PageCounts}
  \cup {ProductsBody(items, Absent) : items \in {<<>>, <<GoodNode>>}}

UidName == <<"c1", "c2", "c3", "c4", "c5", "c6">>
CrawlForests ==
  UNION {{Forest(p, u, Absent) : p \in ParentLinks(k),
            u \in {f \in [1..k -> {Absent} \cup {Str(UidName[i]) : i \in 1..k}] :
                     \A i \in 1..k : f[i] \in {Absent, Str(UidName[i])}}}
         : k \in 0..MaxCrawlNodes}
TreeBodies == {Undecodable, NullDataBody} \cup {TreeBody(f) : f \in CrawlForests}

\* HTTP statuses the server answers with
Statuses == {200, 400, 404, 500, 503}

(***************************************************************************)
(* The crawl.                                                              *)
(*   pc        "NotStarted" until start_requests has run                   *)
(*   requests  every request issued so far, in issue order; a request's    *)
(*             id is its index.  cat is the position of the request's leaf *)
(*             category in the walk of the tree (0 for the tree request).  *)
(*   rstate    per request: "inflight" (scheduled or downloading),         *)
(*             "downloaded" (its response or failure waits for the         *)
(*             callback or errback), "handled" (callback or errback        *)
(*             returned), "raised" (the callback raised and the framework  *)
(*             logged it), "failed" (failure with no errback to call)      *)
(*   inbox     downloaded responses and failures not yet handed over       *)
(*   output    the records yielded so far, each with the id of the request *)
(*             whose callback yielded it and its position on that page     *)
(*   errlog    the spider's logger.error calls, in order                   *)
(*   store_code  the spider's store_code attribute, set by __init__        *)
(*   headers   the "Store" entry of the headers dict, which is an          *)
(*             attribute of the class: every instance reads and writes the *)
(*             same dict                                                   *)
(***************************************************************************)
VARIABLES pc, requests, rstate, inbox, output, errlog, store_code, headers
vars == <<pc, requests, rstate, inbox, output, errlog, store_code, headers>>

\* the stores a spider is constructed with; "en" is the default
Stores == {"en", "ar"}
DefaultStore == "en"

HandleHttpStatusList == {400, 404, 500}

\* the tree request without an errback
CategoriesRequest_noerrback ==
  [kind |-> "categories", uid |-> Null, page |-> 0, cat |-> 0,
   callback |-> "parse_categories", errback |-> "none",
   handle_httpstatus_list |-> {}, Store |-> headers]
CategoriesRequest ==
  [kind |-> "categories", uid |-> Null, page |-> 0, cat |-> 0,
   callback |-> "parse_categories", errback |-> "handle_error",
   handle_httpstatus_list |-> {}, Store |-> headers]

\* the request fetch_products yields; its headers are copied from the
\* headers dict when the request is built
fetch_products(category_uid, page, cat) ==
  [kind |-> "products", uid |-> category_uid, page |-> page, cat |-> cat,
   callback |-> "parse_products", errback |-> "none",
   handle_httpstatus_list |-> HandleHttpStatusList, Store |-> headers]

Init ==
  /\ store_code = DefaultStore
  /\ headers = DefaultStore
  /\ pc = "NotStarted"
  /\ requests = <<>>
  /\ rstate = <<>>
  /\ inbox = {}
  /\ output = <<>>
  /\ errlog = <<>>

start_requests ==
  /\ pc = "NotStarted"
  /\ pc' = "Started"
  /\ requests' = <<CategoriesRequest>>
  /\ rstate' = <<"inflight">>
  /\ UNCHANGED <<inbox, output, errlog, store_code, headers>>

\* the framework hands a response to the callback when its status is 2xx
\* or listed in the request's handle_httpstatus_list
PassedToCallback(r, status) ==
  status \in 200..299 \/ status \in r.handle_httpstatus_list

BodiesFor(r) ==
  IF r.kind = "categories" THEN TreeBodies
  ELSE IF r.uid = LongCategory THEN PagedBodies
  ELSE ProductBodies

\* request i is scheduled or being downloaded
InFlight(i) == i \in DOMAIN requests /\ rstate[i] = "inflight"
\* message m is a response waiting for the callback called name
ForCallback(m, name) ==
  m \in inbox /\ ~m.failure /\ requests[m.id].callback = name
\* message m is a failure waiting for the errback called name
ForErrback(m, name) ==
  m \in inbox /\ m.failure /\ requests[m.id].errback = name

\* a response arrives for request i and is queued for the callback
Download(i) ==
  /\ InFlight(i)
  /\ \E status \in Statuses, body \in BodiesFor(requests[i]) :
       /\ PassedToCallback(requests[i], status)
       /\ inbox' = inbox \cup {[id |-> i, failure |-> FALSE,
                                status |-> status, body |-> body]}
  /\ rstate' = [rstate EXCEPT ![i] = "downloaded"]
  /\ UNCHANGED <<pc, requests, output, errlog, store_code, headers>>

\* request i fails: no connection (status 0) or a status that is not passed
\* to the callback; the failure goes to the errback when there is one
Fail(i) ==
  /\ InFlight(i)
  /\ \E status \in Statuses \cup {0} :
       /\ ~PassedToCallback(requests[i], status)
       /\ IF requests[i].errback = "none"
          THEN /\ rstate' = [rstate EXCEPT ![i] = "failed"]
               /\ inbox' = inbox
          ELSE /\ rstate' = [rstate EXCEPT ![i] = "downloaded"]
               /\ inbox' = inbox \cup {[id |-> i, failure |-> TRUE,
                                        status |-> status, body |-> NoBody]}
  /\ UNCHANGED <<pc, requests, output, errlog, store_code, headers>>

LogEntries(log, id) == [k \in DOMAIN log |-> [what |-> log[k], id |-> id]]

\* a callback that raises is logged by the framework and the crawl goes on:
\* only the request whose callback ran changes state
After_raised(raised) == "raised"
After(raised) == IF raised THEN "raised" ELSE "handled"
Settle_abort(rs, id, raised) ==
  [i \in DOMAIN rs |->
     IF i = id THEN After(raised)
     ELSE IF raised /\ rs[i] \in {"inflight", "downloaded"} THEN "failed"
     ELSE rs[i]]
Settle(rs, id, raised) == [rs EXCEPT ![id] = After(raised)]

\* the records a callback yields reach the sink in the order it yields them
Sink_prepend(out, records, id) ==
  [k \in DOMAIN records |-> [record |-> records[k], id |-> id, idx |-> k]] \o out
Sink(out, records, id) ==
  out \o [k \in DOMAIN records |-> [record |-> records[k], id |-> id, idx |-> k]]

parse_categories(m) ==
  /\ ForCallback(m, "parse_categories")
  /\ LET res == parse_categories_run(m.body)
         new == [k \in DOMAIN res.items |-> fetch_products(res.items[k], 1, k)]
     IN /\ requests' = requests \o new
        /\ rstate' = Settle(rstate, m.id, res.raised)
                       \o [k \in DOMAIN new |-> "inflight"]
        /\ errlog' = errlog \o LogEntries(res.log, m.id)
  /\ inbox' = inbox \ {m}
  /\ UNCHANGED <<pc, output, store_code, headers>>

parse_products(m) ==
  /\ ForCallback(m, "parse_products")
  /\ LET r == requests[m.id]
         res == parse_products_run(m.body, r.page)
         new == IF res.next THEN <<fetch_products(r.uid, next_page(r.page), r.cat)>>
                ELSE <<>>
     IN /\ output' = Sink(output, res.items, m.id)
        /\ requests' = requests \o new
        /\ rstate' = Settle(rstate, m.id, res.raised)
                       \o [k \in DOMAIN new |-> "inflight"]
        /\ errlog' = errlog \o LogEntries(res.log, m.id)
  /\ inbox' = inbox \ {m}
  /\ UNCHANGED <<pc, store_code, headers>>

handle_error(m) ==
  /\ ForErrback(m, "handle_error")
  /\ errlog' = Append(errlog, [what |-> "request_failed", id |-> m.id])
  /\ rstate' = [rstate EXCEPT ![m.id] = "handled"]
  /\ inbox' = inbox \ {m}
  /\ UNCHANGED <<pc, requests, output, store_code, headers>>

Next ==
  \/ start_requests
  \/ \E i \in DOMAIN requests : Download(i)
  \/ \E i \in DOMAIN requests : Fail(i)
  \/ \E m \in inbox : parse_categories(m)
  \/ \E m \in inbox : parse_products(m)
  \/ \E m \in inbox : handle_error(m)

Spec == Init /\ [][Next]_vars

\* the crawl is over: nothing in flight, nothing waiting for a callback
Done ==
  /\ pc = "Started"
  /\ \A i \in DOMAIN requests : rstate[i] \notin {"inflight", "downloaded"}

(***************************************************************************)
(* parse_products alone, on one page holding one raw product node: the     *)
(* node has each nested block present, null or missing.                    *)
(***************************************************************************)
Opt(S) == {Absent, Null} \cup S

FinalPrice == Obj([value |-> Num(100), currency |-> Str("SAR")])
RegularPrice == Obj([value |-> Num(150), currency |-> Str("SAR")])
Discount == Obj([amount_off |-> Num(50), percent_off |-> Num(33)])

MaximumPrices ==
  {Obj(Field("final_price", f) @@ Field("regular_price", r) @@ Field("discount", d)) :
     f \in Opt({FinalPrice}), r \in Opt({RegularPrice}), d \in Opt({Discount})}
PriceRanges == {Obj(Field("maximum_price", mp)) : mp \in Opt(MaximumPrices)}

RawNodes ==
  {Obj([id |-> Num(7), uid |-> Str("Nw=="), sku |-> Str("sku-7"),
        name |-> Str("Fan"), url_key |-> Str("fan"),
        stock_status |-> Str("OUT_OF_STOCK")]
       @@ Field("price_range", pr) @@ Field("small_image", img)
       @@ Field("description", desc)) :
     pr \in Opt(PriceRanges),
     img \in Opt({Obj([url |-> Str("http://img/7")])}),
     desc \in Opt({Obj([html |-> Str("<p>7</p>")])})}

InitNorm ==
  /\ store_code = DefaultStore
  /\ headers = DefaultStore
  /\ pc = "Started"
  /\ requests = <<CategoriesRequest, fetch_products(Str("c1"), 1, 1)>>
  /\ rstate = <<"handled", "downloaded">>
  /\ \E node \in RawNodes :
       inbox = {[id |-> 2, failure |-> FALSE, status |-> 200,
                 body |-> ProductsBody(<<node>>, Absent)]}
  /\ output = <<>>
  /\ errlog = <<>>

NextNorm == \E m \in inbox : parse_products(m)

SpecNorm == InitNorm /\ [][NextNorm]_vars

(***************************************************************************)
(* parse_categories alone, on every answer to the category-tree request:   *)
(* every forest of at most MaxNodes nodes and the malformed answers.  A    *)
(* node's uid is a string, "", null or missing; the string is either one   *)
(* that several nodes share or the node's own, which spells the node's     *)
(* position in the tree ("c21": first child of the second root).           *)
(***************************************************************************)
\* the position of node i: its index among its siblings, after the position
\* of its parent
RECURSIVE PathOf(_, _)
PathOf(i, parent) ==
  LET siblings == SortedSeq({j \in DOMAIN parent : parent[j] = parent[i]})
      k == CHOOSE n \in DOMAIN siblings : siblings[n] = i
  IN (IF parent[i] = 0 THEN <<>> ELSE PathOf(parent[i], parent)) \o <<k>>

RECURSIVE PathName(_)
PathName(path) ==
  IF path = <<>> THEN "c"
  ELSE PathName(SubSeq(path, 1, Len(path) - 1)) \o ToString(path[Len(path)])

SharedUid == Str("dup")
UidForms(i, parent) ==
  {Str(PathName(PathOf(i, parent))), SharedUid, Str(""), Null, Absent}
LeafForms == {EmptyList, Null, Absent}

TreeForests ==
  UNION {UNION {{Forest(p, u, lf) :
                   u \in {f \in [1..k -> UNION {UidForms(i, p) : i \in 1..k}] :
                            \A i \in 1..k : f[i] \in UidForms(i, p)},
                   lf \in LeafForms}
                : p \in ParentLinks(k)}
         : k \in 0..MaxNodes}

MalformedTreeBodies ==
  {Undecodable, Body(Null), Body(EmptyList), Body(EmptyObj),
   Body(Obj([data |-> Null])), Body(Obj([data |-> EmptyObj])),
   Body(Obj([data |-> Obj([categoryList |-> Null])]))}

AllTreeBodies ==
  MalformedTreeBodies \cup
  {TreeBody(f) : f \in TreeForests}

InitTree ==
  /\ store_code = DefaultStore
  /\ headers = DefaultStore
  /\ pc = "Started"
  /\ requests = <<CategoriesRequest>>
  /\ rstate = <<"downloaded">>
  /\ \E body \in AllTreeBodies :
       inbox = {[id |-> 1, failure |-> FALSE, status |-> 200, body |-> body]}
  /\ output = <<>>
  /\ errlog = <<>>

NextTree == \E m \in inbox : parse_categories(m)

SpecTree == InitTree /\ [][NextTree]_vars

(***************************************************************************)
(* The pagination of one category alone: the long category, whose page-1   *)
(* request parse_categories has issued.                                    *)
(***************************************************************************)
InitPages ==
  /\ store_code = DefaultStore
  /\ headers = DefaultStore
  /\ pc = "Started"
  /\ requests = <<CategoriesRequest, fetch_products(LongCategory, 1, 1)>>
  /\ rstate = <<"handled", "inflight">>
  /\ inbox = {}
  /\ output = <<>>
  /\ errlog = <<>>

NextPages ==
  \/ \E i \in DOMAIN requests : Download(i)
  \/ \E m \in inbox : parse_products(m)

SpecPages == InitPages /\ [][NextPages]_vars

(***************************************************************************)
(* Two spiders in one process.  The crawl followed is that of the first    *)
(* spider, constructed with any store; another spider is constructed at    *)
(* any moment, and its __init__ writes its store into the headers dict of  *)
(* the class.  The crawl is followed up to the page-1 product requests.    *)
(***************************************************************************)
\* __init__ of another instance: self.headers["Store"] = self.store_code
\* (its own store_code attribute is not part of the crawl followed)
ElectricHouseSpider(store) ==
  /\ headers' = store
  /\ UNCHANGED <<pc, requests, rstate, inbox, output, errlog, store_code>>

InitStore ==
  /\ \E store \in Stores : store_code = store /\ headers = store
  /\ pc = "NotStarted"
  /\ requests = <<>>
  /\ rstate = <<>>
  /\ inbox = {}
  /\ output = <<>>
  /\ errlog = <<>>

NextStore ==
  \/ start_requests
  \/ \E i \in DOMAIN requests : requests[i].kind = "categories" /\ Download(i)
  \/ \E m \in inbox : parse_categories(m)
  \/ \E store \in Stores : ElectricHouseSpider(store)

SpecStore == InitStore /\ [][NextStore]_vars

(***************************************************************************)
(* Vocabulary of the properties.                                           *)
(***************************************************************************)
ProductIds == {i \in DOMAIN requests : requests[i].kind = "products"}
Unsettled(i) == rstate[i] \in {"inflight", "downloaded"}
Categories == {requests[i].cat : i \in ProductIds}
IdsOf(c) == {i \in ProductIds : requests[i].cat = c}

\* the step hands message m to its callback or errback
Handles(m) == m \in inbox /\ m \notin inbox'
\* the requests the step issues
NewRequests == SubSeq(requests', Len(requests) + 1, Len(requests'))
\* the records the step emits
NewOutput == SubSeq(output', Len(output) + 1, Len(output'))

\* what a response body holds, read off the JSON itself
CarriesErrors(body) ==
  body.decodes /\ IsDict(body.json) /\ "errors" \in DOMAIN body.json.o
IsPage(body) ==
  /\ body.decodes /\ IsDict(body.json)
  /\ "errors" \notin DOMAIN body.json.o
  /\ "data" \in DOMAIN body.json.o /\ IsDict(body.json.o["data"])
  /\ "products" \in DOMAIN body.json.o["data"].o
  /\ IsDict(body.json.o["data"].o["products"])
  /\ "items" \in DOMAIN body.json.o["data"].o["products"].o
  /\ body.json.o["data"].o["products"].o["items"].t = "list"
PageItems(body) == body.json.o["data"].o["products"].o["items"].l
\* the total_pages a page reports, 0 when it reports none
PageTotal(body) ==
  LET products == body.json.o["data"].o["products"].o
  IN IF "page_info" \in DOMAIN products
        /\ IsDict(products["page_info"])
        /\ "total_pages" \in DOMAIN products["page_info"].o
        /\ products["page_info"].o["total_pages"].t = "num"
     THEN products["page_info"].o["total_pages"].n
     ELSE 0

NextPageRequest(r) == fetch_products(r.uid, r.page + 1, r.cat)

\* the pages of a category are requested one after the other from page 1:
\* a request for page p+1 exists only once the response to page p has been
\* handled, and no page is requested twice
PagesInOrder ==
  \A i \in ProductIds :
    /\ requests[i].page >= 1
    /\ requests[i].page > 1 =>
         \E j \in IdsOf(requests[i].cat) :
           /\ j < i
           /\ requests[j].page = requests[i].page - 1
           /\ rstate[j] = "handled"
    /\ \A j \in IdsOf(requests[i].cat) :
         requests[j].page = requests[i].page => j = i

\* a category has at most one request that is not settled
OneOutstanding ==
  \A c \in Categories : Cardinality({i \in IdsOf(c) : Unsettled(i)}) <= 1

\* a category whose requests are all settled gets no further request
SettledStays ==
  \A c \in Categories :
    (\A i \in IdsOf(c) : ~Unsettled(i)) =>
      \A k \in DOMAIN NewRequests : NewRequests[k].cat # c

(***************************************************************************)
(* C1: for a category whose responses decode, carry no errors and report   *)
(* total_pages = N, pages 1..N are requested in order, each after the      *)
(* response to the page before has been handled, page N+1 is never         *)
(* requested, and the records emitted are the items of each page in        *)
(* response order.  Stated per response: handling the response to page p   *)
(* emits one record per item of the page, in order, and requests page p+1  *)
(* exactly when p < N.                                                     *)
(***************************************************************************)
C1_PageStep ==
  \A m \in inbox :
    (Handles(m) /\ m.id \in ProductIds /\ IsPage(m.body) /\ PageTotal(m.body) >= 1) =>
      LET r == requests[m.id]
          items == PageItems(m.body)
      IN /\ NewOutput = [k \in DOMAIN items |->
                           [record |-> process_product_item(items[k]).value,
                            id |-> m.id, idx |-> k]]
         /\ \A k \in DOMAIN items : ~process_product_item(items[k]).raised
         /\ NewRequests = IF r.page < PageTotal(m.body)
                          THEN <<NextPageRequest(r)>> ELSE <<>>

\* C1: every page step of a category follows its total_pages and emits the
\* page's items in order, and pages are requested in order from page 1
C1_ExactlyNPages == [][C1_PageStep]_vars /\ []PagesInOrder

(***************************************************************************)
(* C3: a product-page response with a top-level errors field emits no      *)
(* record, issues no request, does not raise, leaves the records emitted   *)
(* so far in place, and its category gets no request afterwards.           *)
(***************************************************************************)
C3_ErrorsStep ==
  \A m \in inbox :
    (Handles(m) /\ m.id \in ProductIds /\ CarriesErrors(m.body)) =>
      /\ output' = output
      /\ requests' = requests
      /\ rstate' = [rstate EXCEPT ![m.id] = "handled"]

\* C3: an errors response emits nothing, issues nothing, does not raise,
\* and its category stays without requests from then on
C3_ErrorsEndCategory ==
  /\ [][C3_ErrorsStep]_vars
  /\ [][SettledStays]_vars
  /\ []OneOutstanding

\* page 2 of a category answered with errors after page 1 emitted records
C3_Witness ==
  \E i \in ProductIds :
    /\ requests[i].page >= 2
    /\ rstate[i] = "handled"
    /\ \E k \in DOMAIN errlog : errlog[k] = [what |-> "graphql_errors", id |-> i]
    /\ \E k \in DOMAIN output : requests[output[k].id].cat = requests[i].cat
    /\ \A j \in IdsOf(requests[i].cat) : requests[j].page <= requests[i].page

(***************************************************************************)
(* C4 as claimed: a page with zero items ends the category's pagination,   *)
(* whatever total_pages it reports.                                        *)
(***************************************************************************)
C4_ZeroItemsStep ==
  \A m \in inbox :
    (Handles(m) /\ m.id \in ProductIds /\ IsPage(m.body) /\ PageItems(m.body) = <<>>) =>
      requests' = requests

\* C4 as claimed: no request follows a page with zero items
C4_ZeroItemsStop == [][C4_ZeroItemsStep]_vars

(***************************************************************************)
(* C4 amended: after a page with zero items, page p+1 is requested exactly *)
(* when p is below the total_pages the page reports (1 when it reports     *)
(* none); an empty page alone does not end the pagination.                 *)
(***************************************************************************)
C4_ZeroItemsFollowTotalStep ==
  \A m \in inbox :
    (Handles(m) /\ m.id \in ProductIds /\ IsPage(m.body) /\ PageItems(m.body) = <<>>) =>
      LET r == requests[m.id]
          total == IF PageTotal(m.body) = 0 THEN 1 ELSE PageTotal(m.body)
      IN /\ output' = output
         /\ NewRequests = IF r.page < total THEN <<NextPageRequest(r)>> ELSE <<>>

\* C4 amended: after a page with zero items the next page is requested
\* exactly when the page number is below the reported total_pages
C4_ZeroItemsFollowTotal == [][C4_ZeroItemsFollowTotalStep]_vars

\* a handled page that emitted nothing and was followed by the next page
C4_Witness ==
  \E i \in ProductIds :
    /\ rstate[i] = "handled"
    /\ \A k \in DOMAIN output : output[k].id # i
    /\ \E j \in IdsOf(requests[i].cat) : requests[j].page = requests[i].page + 1

(***************************************************************************)
(* C5: a product-page response with status 400, 404 or 500 emits no record *)
(* and issues no request, whatever its body.                               *)
(***************************************************************************)
C5_ErrorStatusStep ==
  \A m \in inbox :
    (Handles(m) /\ m.id \in ProductIds /\ m.status \in {400, 404, 500}) =>
      /\ output' = output
      /\ requests' = requests

\* C5: a response with status 400, 404 or 500 emits nothing and issues nothing
C5_ErrorStatusEndsCategory == [][C5_ErrorStatusStep]_vars

(***************************************************************************)
(* C6: process_product_item returns a record for every raw node, whichever *)
(* nested blocks are missing or null: a page of one node always yields one *)
(* record and the callback does not raise.                                 *)
(***************************************************************************)
\* C6: normalising a page of one raw node yields one record without raising
C6_NormalizeTotal ==
  \A i \in ProductIds :
    ~Unsettled(i) => (rstate[i] = "handled" /\ Len(output) = 1)

(***************************************************************************)
(* C7: every item of every page that decodes and carries no errors becomes *)
(* exactly one record, and no other record is emitted.                     *)
(***************************************************************************)
C7_EveryItemStep ==
  /\ \A m \in inbox :
       (Handles(m) /\ m.id \in ProductIds /\ IsPage(m.body)) =>
         /\ Len(NewOutput) = Len(PageItems(m.body))
         /\ \A k \in DOMAIN NewOutput : NewOutput[k].id = m.id
  /\ (\A m \in inbox : ~(Handles(m) /\ m.id \in ProductIds /\ IsPage(m.body))) =>
       output' = output

\* C7: each handled page adds one record per item, nothing else adds records
C7_EveryItemOnce == [][C7_EveryItemStep]_vars

(***************************************************************************)
(* C8 as claimed: every record of an earlier leaf category is emitted      *)
(* before any record of a later leaf category.                             *)
(***************************************************************************)
CatOf(k) == requests[output[k].id].cat
PageOf(k) == requests[output[k].id].page

\* C8 as claimed: the sink holds the records in category order
C8_CategoryOrder ==
  \A i, j \in DOMAIN output : i < j => CatOf(i) <= CatOf(j)

(***************************************************************************)
(* C8 amended: the records of one category reach the sink in page order    *)
(* and, within a page, in response order; records of different categories  *)
(* are interleaved as their responses are handled.                         *)
(***************************************************************************)
\* C8 amended: within one category the sink holds the records in page
\* order and, within a page, in response order
C8_WithinCategoryOrder ==
  \A i, j \in DOMAIN output :
    (i < j /\ CatOf(i) = CatOf(j)) =>
      \/ PageOf(i) < PageOf(j)
      \/ PageOf(i) = PageOf(j) /\ output[i].idx < output[j].idx

\* a record of a later category precedes one of an earlier category, which
\* has records of two pages
C8_Witness ==
  \E i, j, k \in DOMAIN output :
    /\ i < j /\ j < k
    /\ CatOf(i) > CatOf(j)
    /\ CatOf(j) = CatOf(k)
    /\ PageOf(j) < PageOf(k)

(***************************************************************************)
(* C9: what happens to the requests of one category leaves every other     *)
(* category alone.  A step that delivers, fails or handles a request of    *)
(* category A changes no request state, no queued response and no record   *)
(* of a category B # A, and issues no request and emits no record for B.   *)
(***************************************************************************)
C9_Step ==
  \A i \in ProductIds :
    rstate'[i] # rstate[i] =>
      /\ SubSeq(requests', 1, Len(requests)) = requests
      /\ SubSeq(output', 1, Len(output)) = output
      /\ \A c \in Categories \ {requests[i].cat} :
           /\ \A j \in IdsOf(c) : rstate'[j] = rstate[j]
           /\ \A k \in DOMAIN NewRequests : NewRequests[k].cat # c
           /\ \A k \in DOMAIN NewOutput : requests[NewOutput[k].id].cat # c
           /\ {m \in inbox' : requests'[m.id].cat = c}
                = {m \in inbox : requests[m.id].cat = c}

\* C9: no step on a request of one category touches another category
C9_CategoriesIndependent == [][C9_Step]_vars

\* one category ended in a failure, an exception or a logged error while
\* another went through two pages and emitted records of the second
C9_Witness ==
  \E a, b \in Categories :
    /\ a # b
    /\ \E i \in IdsOf(a) :
         \/ rstate[i] \in {"failed", "raised"}
         \/ \E k \in DOMAIN errlog : errlog[k].id = i
    /\ \E j \in IdsOf(b) :
         /\ requests[j].page = 2
         /\ rstate[j] = "handled"
         /\ \E k \in DOMAIN output : output[k].id = j

(***************************************************************************)
(* C10: when every request gets its response or failure and total_pages    *)
(* never exceeds MaxPages, the crawl reaches Done, whatever mix of pages,   *)
(* GraphQL errors, undecodable bodies, error statuses and failures the     *)
(* server answers with.  Every step lowers Rank, a natural number, so a     *)
(* crawl takes finitely many steps; and a state that is not Done has a     *)
(* step to take, so no error leaves the crawl stuck short of Done: the     *)
(* framework, which keeps stepping while it can, ends the crawl in Done.   *)
(***************************************************************************)
\* the steps request i can still cause: its own arrival and handling, and
\* those of the requests its callback can issue
Weight(i) ==
  LET r == requests[i]
      own == IF rstate[i] = "inflight" THEN 2 ELSE 1
  IN IF ~Unsettled(i) THEN 0
     ELSE IF r.kind = "categories" THEN own + MaxCrawlNodes * 2 * MaxPages
     ELSE own + 2 * (MaxPages - r.page)

RECURSIVE SumWeights(_)
SumWeights(ids) ==
  IF ids = {} THEN 0
  ELSE LET i == CHOOSE x \in ids : TRUE
       IN Weight(i) + SumWeights(ids \ {i})

Rank ==
  IF pc = "NotStarted" THEN 3 + MaxCrawlNodes * 2 * MaxPages
  ELSE SumWeights(DOMAIN requests)

\* some step can be taken: every action is its guard and assignments
CanStep ==
  \/ pc = "NotStarted"
  \/ \E i \in DOMAIN requests : InFlight(i)
  \/ \E m \in inbox : \/ ForCallback(m, "parse_categories")
                      \/ ForCallback(m, "parse_products")
                      \/ ForErrback(m, "handle_error")

\* C10: the crawl is never stuck short of Done and every step lowers Rank
C10_ReachesDone ==
  /\ [](Done \/ CanStep)
  /\ [](Rank >= 0)
  /\ [][Rank' < Rank]_vars

\* the crawl is over after a failure without errback, an exception in a
\* callback or a logged error, and with records in the sink
C10_Witness ==
  /\ Done
  /\ \E i \in ProductIds : rstate[i] = "failed"
  /\ \E i \in ProductIds :
       rstate[i] = "raised" \/ \E k \in DOMAIN errlog : errlog[k].id = i
  /\ output # <<>>

(***************************************************************************)
(* Category trees, read off the JSON itself.                               *)
(***************************************************************************)
IsTree(body) ==
  /\ body.decodes /\ IsDict(body.json)
  /\ "data" \in DOMAIN body.json.o /\ IsDict(body.json.o["data"])
  /\ "categoryList" \in DOMAIN body.json.o["data"].o
  /\ body.json.o["data"].o["categoryList"].t = "list"
TreeRoots(body) == body.json.o["data"].o["categoryList"].l

\* a node's children sequence, empty when the field is missing or null
ChildrenOf(node) ==
  IF "children" \in DOMAIN node.o /\ node.o["children"].t = "list"
  THEN node.o["children"].l
  ELSE <<>>
UidOf(node) == IF "uid" \in DOMAIN node.o THEN node.o["uid"] ELSE Absent

\* the number of nodes with an empty children sequence
RECURSIVE LeafCount(_)
LeafCount(cats) ==
  IF cats = <<>> THEN 0
  ELSE (IF ChildrenOf(Head(cats)) = <<>> THEN 1
        ELSE LeafCount(ChildrenOf(Head(cats))))
       + LeafCount(Tail(cats))

\* the number of nodes with an empty children sequence and uid u
RECURSIVE LeafCountWithUid(_, _)
LeafCountWithUid(cats, u) ==
  IF cats = <<>> THEN 0
  ELSE (IF ChildrenOf(Head(cats)) = <<>>
        THEN (IF UidOf(Head(cats)) = u THEN 1 ELSE 0)
        ELSE LeafCountWithUid(ChildrenOf(Head(cats)), u))
       + LeafCountWithUid(Tail(cats), u)

RequestsFor(u) == {k \in DOMAIN NewRequests : NewRequests[k].uid = u}
NonEmptyUids ==
  {SharedUid} \cup
  {Str(PathName(path)) : path \in SeqsUpTo(1..MaxNodes, MaxNodes) \ {<<>>}}

(***************************************************************************)
(* C2 as claimed: parse_categories issues a page-1 product request for     *)
(* exactly the nodes whose children sequence is empty.                     *)
(***************************************************************************)
C2_EveryLeafStep ==
  \A m \in inbox :
    (Handles(m) /\ requests[m.id].kind = "categories" /\ IsTree(m.body)) =>
      /\ Len(NewRequests) = LeafCount(TreeRoots(m.body))
      /\ \A k \in DOMAIN NewRequests : NewRequests[k].page = 1

\* C2 as claimed: one page-1 request per node with an empty children sequence
C2_EveryLeafRequested == [][C2_EveryLeafStep]_vars

(***************************************************************************)
(* C2 amended: parse_categories issues a page-1 product request for        *)
(* exactly the nodes whose children sequence is empty and whose uid is a   *)
(* non-empty string, one request per such node; a node with children never *)
(* gets a request of its own.                                              *)
(***************************************************************************)
C2_LeavesWithUidStep ==
  \A m \in inbox :
    (Handles(m) /\ requests[m.id].kind = "categories" /\ IsTree(m.body)) =>
      /\ \A k \in DOMAIN NewRequests :
           /\ NewRequests[k].kind = "products"
           /\ NewRequests[k].page = 1
           /\ NewRequests[k].uid \in NonEmptyUids
      /\ \A u \in NonEmptyUids :
           Cardinality(RequestsFor(u)) = LeafCountWithUid(TreeRoots(m.body), u)

\* C2 amended: one page-1 request per childless node with a non-empty uid,
\* none for any other node
C2_LeavesWithUidRequested == [][C2_LeavesWithUidStep]_vars

\* the tree response has been handled and product requests for two
\* different categories are in flight
C2_Witness ==
  /\ rstate[1] = "handled"
  /\ \E i, j \in ProductIds :
       /\ requests[i].uid # requests[j].uid
       /\ requests[i].page = 1 /\ requests[j].page = 1
       /\ rstate[i] = "inflight" /\ rstate[j] = "inflight"

(***************************************************************************)
(* C11: a category-tree response that is malformed (a body that does not   *)
(* decode, or JSON without the data.categoryList path: a top level that is *)
(* not an object, data or categoryList missing or null) is handled by      *)
(* parse_categories without raising, issues no product request and logs    *)
(* an error.                                                               *)
(***************************************************************************)
C11_MalformedStep ==
  \A m \in inbox :
    (Handles(m) /\ requests[m.id].kind = "categories" /\ ~IsTree(m.body)) =>
      /\ rstate' = [rstate EXCEPT ![m.id] = "handled"]
      /\ requests' = requests
      /\ Len(errlog') = Len(errlog) + 1

\* C11: a malformed tree response is handled without raising, issues no
\* product request and logs one error
C11_MalformedTreeHandled == [][C11_MalformedStep]_vars

(***************************************************************************)
(* C12: the page-1 product requests are issued in pre-order of the tree:   *)
(* depth-first, siblings in response order.  PreOrderLeaves reads the      *)
(* order off the JSON: a node's requested leaves come before those of the  *)
(* siblings after it, a childless node with a uid stands for itself.       *)
(***************************************************************************)
RECURSIVE PreOrderLeaves(_)
PreOrderLeaves(cats) ==
  IF cats = <<>> THEN <<>>
  ELSE LET node == Head(cats)
           below == IF ChildrenOf(node) # <<>> THEN PreOrderLeaves(ChildrenOf(node))
                    ELSE IF UidOf(node) \in NonEmptyUids THEN <<UidOf(node)>>
                    ELSE <<>>
       IN below \o PreOrderLeaves(Tail(cats))

C12_PreOrderStep ==
  \A m \in inbox :
    (Handles(m) /\ requests[m.id].kind = "categories" /\ IsTree(m.body)) =>
      LET leaves == PreOrderLeaves(TreeRoots(m.body))
      IN NewRequests = [k \in DOMAIN leaves |-> fetch_products(leaves[k], 1, k)]

\* C12: the page-1 requests follow the pre-order of the category tree
C12_PreOrder == [][C12_PreOrderStep]_vars

\* the tree {A (leaf), B (children: [C (leaf)])} has been walked: the
\* requests are for A, the first root, then C, the first child of the
\* second root
C12_Witness ==
  /\ rstate[1] = "handled"
  /\ [k \in 2..Len(requests) |-> requests[k].uid]
       = (2 :> Str("c1")) @@ (3 :> Str("c21"))

(***************************************************************************)
(* C17: a childless node whose uid is missing, null or "" gets no product  *)
(* request and no log entry, and the walk goes on with the nodes after it: *)
(* the page-1 requests are as many as the childless nodes less the ones    *)
(* without a uid.                                                          *)
(***************************************************************************)
\* the number of childless nodes whose uid is missing, null or ""
RECURSIVE LeafCountWithoutUid(_)
LeafCountWithoutUid(cats) ==
  IF cats = <<>> THEN 0
  ELSE (IF ChildrenOf(Head(cats)) = <<>>
        THEN (IF UidOf(Head(cats)) \in {Absent, Null, Str("")} THEN 1 ELSE 0)
        ELSE LeafCountWithoutUid(ChildrenOf(Head(cats))))
       + LeafCountWithoutUid(Tail(cats))

C17_SkipStep ==
  \A m \in inbox :
    (Handles(m) /\ requests[m.id].kind = "categories" /\ IsTree(m.body)) =>
      /\ Len(NewRequests) = LeafCount(TreeRoots(m.body))
                              - LeafCountWithoutUid(TreeRoots(m.body))
      /\ \A k \in DOMAIN NewRequests : NewRequests[k].uid \notin {Absent, Null, Str("")}
      /\ errlog' = errlog
      /\ rstate'[m.id] = "handled"

\* C17: childless nodes without a uid are skipped silently, every other
\* childless node gets its page-1 request
C17_LeavesWithoutUidSkipped == [][C17_SkipStep]_vars

\* a tree of three roots has been walked: the first root, which has no uid,
\* got no request and no log entry, the two roots after it got theirs
C17_Witness ==
  /\ rstate[1] = "handled"
  /\ errlog = <<>>
  /\ [k \in 2..Len(requests) |-> requests[k].uid]
       = (2 :> Str("c2")) @@ (3 :> Str("c3"))

(***************************************************************************)
(* Raw product nodes, read off the JSON itself.                            *)
(***************************************************************************)
\* the one raw node of a page
NodeOf(body) == PageItems(body)[1]
HasBlock(node, k) == k \in DOMAIN node.o /\ IsDict(node.o[k])
\* field f of block k of a price block, null when the block or the field is
\* missing or null
PriceField(mp, k, f) ==
  IF HasBlock(mp, k) /\ f \in DOMAIN mp.o[k].o THEN mp.o[k].o[f] ELSE Null
OwnField(node, k) == IF k \in DOMAIN node.o THEN node.o[k] ELSE Null

(***************************************************************************)
(* C13: a raw node without a price_range key is normalised without raising *)
(* to a record whose five price fields are null and whose id, uid, sku,    *)
(* name, url_key and stock_status are the node's own.                      *)
(***************************************************************************)
C13_NoPriceRangeStep ==
  \A m \in inbox :
    (Handles(m) /\ m.id \in ProductIds /\ IsPage(m.body)
       /\ "price_range" \notin DOMAIN NodeOf(m.body).o) =>
      /\ rstate'[m.id] = "handled"
      /\ Len(NewOutput) = 1
      /\ LET rec == NewOutput[1].record
             node == NodeOf(m.body)
         IN /\ \A f \in {"final_price", "regular_price", "currency",
                         "discount_amount", "discount_percent"} : rec[f] = Null
            /\ \A f \in {"id", "uid", "sku", "name", "url_key", "stock_status"} :
                 rec[f] = OwnField(node, f)

\* C13: a node without price_range gives a record with null price fields and
\* the node's own identity fields, without raising
C13_NoPriceRange == [][C13_NoPriceRangeStep]_vars

(***************************************************************************)
(* C14: a raw node with a price_range.maximum_price block is normalised to *)
(* a record that copies final_price.value, regular_price.value,            *)
(* final_price.currency, discount.amount_off and discount.percent_off      *)
(* unchanged, with null for the fields of a sub-block that is not there,   *)
(* and source_site "electric-house".                                       *)
(***************************************************************************)
C14_CopyStep ==
  \A m \in inbox :
    (Handles(m) /\ m.id \in ProductIds /\ IsPage(m.body)
       /\ HasBlock(NodeOf(m.body), "price_range")
       /\ HasBlock(NodeOf(m.body).o["price_range"], "maximum_price")) =>
      /\ rstate'[m.id] = "handled"
      /\ Len(NewOutput) = 1
      /\ LET rec == NewOutput[1].record
             mp == NodeOf(m.body).o["price_range"].o["maximum_price"]
         IN /\ rec.final_price = PriceField(mp, "final_price", "value")
            /\ rec.regular_price = PriceField(mp, "regular_price", "value")
            /\ rec.currency = PriceField(mp, "final_price", "currency")
            /\ rec.discount_amount = PriceField(mp, "discount", "amount_off")
            /\ rec.discount_percent = PriceField(mp, "discount", "percent_off")
            /\ rec.source_site = Str("electric-house")

\* C14: the price values of the maximum_price block are copied unchanged,
\* a sub-block that is not there gives null for its own fields only
C14_PricesCopied == [][C14_CopyStep]_vars

(***************************************************************************)
(* C18: whether page p+1 is requested is decided from the total_pages of   *)
(* the response to page p itself and the page number p the request was     *)
(* issued with; the page_info's current_page and the total_pages of        *)
(* earlier pages play no part.  A response without page_info or without    *)
(* total_pages counts as total_pages = 1: its items are emitted and no     *)
(* further page is requested.                                              *)
(***************************************************************************)
\* the total_pages the decision uses: the page's own, 1 when it reports none
OwnTotal(body) == IF PageTotal(body) = 0 THEN 1 ELSE PageTotal(body)
Normalises(items) == \A k \in DOMAIN items : ~process_product_item(items[k]).raised

C18_DecisionStep ==
  \A m \in inbox :
    (Handles(m) /\ m.id \in ProductIds /\ IsPage(m.body)) =>
      LET r == requests[m.id]
          items == PageItems(m.body)
      IN /\ NewRequests \in {<<>>, <<NextPageRequest(r)>>}
         /\ NewRequests # <<>> => r.page < OwnTotal(m.body)
         /\ Normalises(items) =>
              /\ rstate'[m.id] = "handled"
              /\ Len(NewOutput) = Len(items)
              /\ NewRequests # <<>> <=> r.page < OwnTotal(m.body)
         /\ PageTotal(m.body) = 0 => NewRequests = <<>>

\* C18: the next page is requested exactly when the request's page number
\* is below the total_pages of the response itself, 1 when it reports none
C18_OwnTotalPages == [][C18_DecisionStep]_vars

\* pages 1, 2 and 3 of the long category have been requested one after the
\* other and handled, each emitted its record, and no page follows
C18_Witness ==
  /\ [k \in 2..Len(requests) |-> requests[k].page] = (2 :> 1) @@ (3 :> 2) @@ (4 :> 3)
  /\ \A i \in 2..4 :
       /\ requests[i].uid = LongCategory
       /\ rstate[i] = "handled"
       /\ \E k \in DOMAIN output : output[k].id = i

(***************************************************************************)
(* C19: every request of a spider carries the Store header of the store    *)
(* the spider was constructed with, also after another spider has been     *)
(* constructed with a different store.                                     *)
(***************************************************************************)
\* C19: the Store header of every request is the spider's own store
C19_StoreHeader ==
  \A i \in DOMAIN requests : requests[i].Store = store_code

(***************************************************************************)
(* C15: nothing is deduplicated: a product node is emitted once for each   *)
(* of its appearances on the pages handled, whether or not its record has  *)
(* been emitted before by this or another category.                        *)
(***************************************************************************)
Count(seq, x) == Cardinality({k \in DOMAIN seq : seq[k] = x})

C15_NoDedupStep ==
  \A m \in inbox :
    (Handles(m) /\ m.id \in ProductIds /\ IsPage(m.body)) =>
      \A node \in CrawlNodes :
        Count([k \in DOMAIN NewOutput |-> NewOutput[k].record],
              process_product_item(node).value)
          = Count(PageItems(m.body), node)

\* C15: each page step emits every node of the page as often as it appears
\* there, whatever has been emitted before
C15_NoDedup == [][C15_NoDedupStep]_vars

(***************************************************************************)
(* C16: a tree response that decodes and holds zero root categories is     *)
(* handled without raising and issues no product request; the crawl is     *)
(* then over, with nothing emitted.                                        *)
(***************************************************************************)
C16_ZeroRootsStep ==
  \A m \in inbox :
    (Handles(m) /\ requests[m.id].kind = "categories"
       /\ IsTree(m.body) /\ TreeRoots(m.body) = <<>>) =>
      /\ requests' = requests
      /\ rstate'[m.id] = "handled"
      /\ output' = <<>>
      /\ Done'

\* C16: zero root categories give zero product requests, no exception, and
\* a finished crawl with an empty output
C16_ZeroRoots ==
  /\ [][C16_ZeroRootsStep]_vars
  /\ [](ProductIds = {} => output = <<>>)

\* the crawl is over after the tree response was handled without a request,
\* an exception or a log entry, and nothing was emitted
C16_Witness ==
  /\ Done
  /\ requests = <<CategoriesRequest>>
  /\ rstate = <<"handled">>
  /\ errlog = <<>>
  /\ output = <<>>

(***************************************************************************)
(* C20: a crawl issues one category-tree request, the first request, and   *)
(* no product request exists before parse_categories has handled the tree  *)
(* response.  A tree request that fails is handed to handle_error, which   *)
(* logs it: parse_categories is not called, no product request is issued,  *)
(* and the crawl is over with zero records.                                *)
(***************************************************************************)
TreeFailure(m) == m.id = 1 /\ m.failure

C20_TreeFirst ==
  /\ pc = "NotStarted" => requests = <<>>
  /\ pc = "Started" =>
       /\ requests[1] = CategoriesRequest
       /\ \A i \in DOMAIN requests : requests[i].kind = "categories" => i = 1
       /\ rstate[1] # "failed"
  /\ ProductIds # {} =>
       /\ rstate[1] = "handled"
       /\ \A k \in DOMAIN errlog : errlog[k].id # 1
  /\ \A m \in inbox : TreeFailure(m) => (ProductIds = {} /\ output = <<>>)

C20_TreeFailureStep ==
  \A m \in inbox :
    (Handles(m) /\ TreeFailure(m)) =>
      /\ errlog' = Append(errlog, [what |-> "request_failed", id |-> 1])
      /\ requests' = <<CategoriesRequest>>
      /\ output' = <<>>
      /\ Done' /\ ~CanStep'

\* C20: one tree request, issued first; product requests only after
\* parse_categories handled its response; a failed tree request is logged by
\* handle_error and ends the crawl with no product request and no record
C20_OneTreeRequest == []C20_TreeFirst /\ [][C20_TreeFailureStep]_vars

\* the tree request failed: handle_error logged it and the crawl is over
\* with the tree request alone and no record
C20_Witness ==
  /\ Done
  /\ requests = <<CategoriesRequest>>
  /\ rstate = <<"handled">>
  /\ errlog = <<[what |-> "request_failed", id |-> 1]>>
  /\ output = <<>>

=============================================================================
